---- MODULE Spec2Model ----
(***************************************************************************)
(* Meowcoin API: the in-memory cache (cache.js), the cache-aside           *)
(* orchestrator cachedFetch (server.js) and the producers the endpoints    *)
(* hand to it, as a state machine.  Concurrent HTTP requests are the tasks *)
(* of the model; a task yields at every await of an RPC call, which is     *)
(* where the Node.js event loop may run another request or let time pass.  *)
(***************************************************************************)
EXTENDS Integers, Sequences, FiniteSets, TLC

(* ------------------------------ bounds -------------------------------- *)

\* concurrent HTTP requests
NumTasks == 2
\* Date.now() runs over 1 .. MaxClock (milliseconds)
MaxClock == 4
\* getblockcount answers 0 .. MaxBlockHeight
MaxBlockHeight == 1
\* CACHE_TTL_MS as configured in the environment (server.js:11)
TTL == 2
\* block heights run over the halving stages 0 .. MaxStage
MaxStage == 65
\* calculateBlockStats is given at most MaxBlocks blocks
MaxBlocks == 3
MaxScanHeight == 577

Tasks == 1 .. NumTasks

(* --------------------------- JSON / JS values ------------------------- *)

Null == [type |-> "null"]
Undefined == [type |-> "undefined"]
Num(n) == [type |-> "number", n |-> n]

\* obj.field of a JSON object held as a function from field names to values
Get(obj, f) == IF f \in DOMAIN obj THEN obj[f] ELSE Undefined

\* JS truthiness of the values the model uses
Truthy(v) == v # Null /\ v # Undefined /\ v # Num(0)

\* variant: null counts as a value
IsPresentNull(v) == v # Undefined

\* Cache.data[key] !== null && Cache.data[key] !== undefined
IsPresent(v) == v # Null /\ v # Undefined

(* ------------------------------ constants ----------------------------- *)

\* 0xFFFFFF00 read as a signed 32-bit integer, as the operator & reads it
MASK == -256
MPW == 805896192
SCR == 805896448
MaxSpacing == 3600
windowMinutes == 60
blocksToFetch == 576

(* --------------------------- pure functions --------------------------- *)

\* version & MASK for a version in the signed 32-bit range: the bitwise and
\* works on 32-bit integers, where MASK (0xFFFFFF00) is -256, and clears the
\* low eight bits
\* variant: only the low four bits are cleared
AndMaskNibble(version) == version - (version % 16)

AndMask(version) == version - (version % (0 - MASK))

\* variant: the top bit of the version is ignored
detectAlgoIgnoresTopBit(version) ==
  LET v == IF version < 0 THEN (version + 2147483647) + 1 ELSE version
  IN  IF AndMask(v) = MPW THEN "meowpow"
      ELSE IF AndMask(v) = SCR THEN "scrypt"
      ELSE "unknown"

detectAlgo(version) ==
  IF AndMask(version) = MPW THEN "meowpow"
  ELSE IF AndMask(version) = SCR THEN "scrypt"
  ELSE "unknown"

\* variant: b is put at the end, whatever its time
InsertAtEnd(b, s) == s \o <<b>>

\* insert b after every element whose time is not greater (stable)
RECURSIVE InsertByTime(_, _)
InsertByTime(b, s) ==
  IF s = <<>> THEN <<b>>
  ELSE IF b.time < Head(s).time THEN <<b>> \o s
  ELSE <<Head(s)>> \o InsertByTime(b, Tail(s))

\* blocks.sort((a, b) => a.time - b.time): a stable sort, oldest first
RECURSIVE SortByTime(_)
SortByTime(s) ==
  IF s = <<>> THEN <<>>
  ELSE InsertByTime(s[Len(s)], SortByTime(SubSeq(s, 1, Len(s) - 1)))

\* variant: a spacing of zero passes the filter
SpacingsWithZero(algoBlocks) ==
  LET all == [i \in 1 .. (Len(algoBlocks) - 1) |->
                algoBlocks[i + 1].time - algoBlocks[i].time]
  IN  SelectSeq(all, LAMBDA sp : sp >= 0 /\ sp <= MaxSpacing)

\* the spacings of consecutive blocks that pass the (0, 3600] filter
Spacings(algoBlocks) ==
  LET all == [i \in 1 .. (Len(algoBlocks) - 1) |->
                algoBlocks[i + 1].time - algoBlocks[i].time]
  IN  SelectSeq(all, LAMBDA sp : sp > 0 /\ sp <= MaxSpacing)

RECURSIVE SumSeq(_)
SumSeq(s) == IF s = <<>> THEN 0 ELSE Head(s) + SumSeq(Tail(s))

\* variant: the quotient is rounded down
RoundDivDown(sum, n) == sum \div n

\* Math.round(sum / n) for sum >= 0, n > 0: halves round up
RoundDiv(sum, n) == (2 * sum + n) \div (2 * n)

\* variant: 0 where there is no average
avg_block_timeZero(algoBlocks) ==
  IF Len(algoBlocks) < 2 THEN Num(0)
  ELSE LET sp == Spacings(algoBlocks)
       IN  IF Len(sp) = 0 THEN Num(0)
           ELSE Num(RoundDiv(SumSeq(sp), Len(sp)))

\* calculateAvgBlockTime followed by `avg ? Math.round(avg) : null`
avg_block_time(algoBlocks) ==
  IF Len(algoBlocks) < 2 THEN Null
  ELSE LET sp == Spacings(algoBlocks)
       IN  IF Len(sp) = 0 THEN Null
           ELSE Num(RoundDiv(SumSeq(sp), Len(sp)))

\* variant: a block exactly windowSeconds old is left out
calculateBlockStatsStrict(blocks, wm, nowMs) ==
  LET now == nowMs \div 1000
      windowSeconds == wm * 60
      windowBlocks ==
        SelectSeq(blocks, LAMBDA b : b.time # 0 /\ (now - b.time) < windowSeconds)
      meowpowBlocks ==
        SortByTime(SelectSeq(windowBlocks, LAMBDA b : detectAlgo(b.version) = "meowpow"))
      scryptBlocks ==
        SortByTime(SelectSeq(windowBlocks, LAMBDA b : detectAlgo(b.version) = "scrypt"))
  IN  [meowpow |-> [blocks_found |-> Num(Len(meowpowBlocks)),
                    avg_block_time |-> avg_block_time(meowpowBlocks)],
       scrypt  |-> [blocks_found |-> Num(Len(scryptBlocks)),
                    avg_block_time |-> avg_block_time(scryptBlocks)]]

\* calculateBlockStats(blocks, windowMinutes) evaluated at Date.now() = nowMs
calculateBlockStats(blocks, wm, nowMs) ==
  LET now == nowMs \div 1000
      windowSeconds == wm * 60
      windowBlocks ==
        SelectSeq(blocks, LAMBDA b : b.time # 0 /\ (now - b.time) <= windowSeconds)
      meowpowBlocks ==
        SortByTime(SelectSeq(windowBlocks, LAMBDA b : detectAlgo(b.version) = "meowpow"))
      scryptBlocks ==
        SortByTime(SelectSeq(windowBlocks, LAMBDA b : detectAlgo(b.version) = "scrypt"))
  IN  [meowpow |-> [blocks_found |-> Num(Len(meowpowBlocks)),
                    avg_block_time |-> avg_block_time(meowpowBlocks)],
       scrypt  |-> [blocks_found |-> Num(Len(scryptBlocks)),
                    avg_block_time |-> avg_block_time(scryptBlocks)]]

(* ------------------------- JavaScript numbers ------------------------- *)

\* A natural number in binary: a sequence of bits, the least significant
\* first, the last one 1; <<>> is zero.
\* the bits s without the zeros above the last 1
TrimTop(s) ==
  IF \A i \in 1 .. Len(s) : s[i] = 0 THEN <<>>
  ELSE SubSeq(s, 1, CHOOSE k \in 1 .. Len(s) :
                       s[k] = 1 /\ \A j \in (k + 1) .. Len(s) : s[j] = 0)

\* n < 2^31 in binary
BitsOf(n) == TrimTop([j \in 1 .. 31 |-> (n \div (2 ^ (j - 1))) % 2])

\* a + b + carry: bit i of the sum is a[i] + b[i] plus the carry into i, and
\* there is a carry into i when a position below i generates one (both bits
\* 1, or the carry given) and every position between passes it on (a bit 1)
BitsAdd(a, b, carry) ==
  LET n == IF Len(a) < Len(b) THEN Len(b) ELSE Len(a)
      A(i) == IF i <= Len(a) THEN a[i] ELSE 0
      B(i) == IF i <= Len(b) THEN b[i] ELSE 0
      C(i) == IF \/ carry = 1 /\ \A k \in 1 .. (i - 1) : A(k) + B(k) >= 1
                 \/ \E j \in 1 .. (i - 1) :
                      /\ A(j) + B(j) = 2
                      /\ \A k \in (j + 1) .. (i - 1) : A(k) + B(k) >= 1
              THEN 1 ELSE 0
      sum == [i \in 1 .. n |-> (A(i) + B(i) + C(i)) % 2]
  IN  IF C(n + 1) = 1 THEN Append(sum, 1) ELSE SubSeq(sum, 1, n)

BitsShift(a, n) == IF a = <<>> THEN <<>> ELSE [i \in 1 .. n |-> 0] \o a

\* acc + a[k .. Len(a)] * b, one bit of a at a time; each sum is computed
\* before the next bit is looked at
RECURSIVE BitsMulFrom(_, _, _, _)
BitsMulFrom(a, b, k, acc) ==
  IF k > Len(a) THEN acc
  ELSE LET next == IF a[k] = 1 THEN BitsAdd(acc, BitsShift(b, k - 1), 0) ELSE acc
       IN  IF Len(next) < 0 THEN <<>> ELSE BitsMulFrom(a, b, k + 1, next)

BitsMul(a, b) ==
  IF Len(b) < Len(a) THEN BitsMulFrom(b, a, 1, <<>>) ELSE BitsMulFrom(a, b, 1, <<>>)

\* the hexadecimal digits hex, the most significant first, in binary
BitsOfHex(hex) ==
  TrimTop([j \in 1 .. 4 * Len(hex) |->
             (hex[Len(hex) - ((j - 1) \div 4)] \div (2 ^ ((j - 1) % 4))) % 2])

\* the significand of a Number (IEEE 754 binary64) has 53 bits
Precision == 53

\* A finite Number that is not negative is the record [m, e] of value
\* m * 2^e with m odd, or [<<>>, 0] for zero. Exponents stay far inside the
\* range of binary64 for every Number the model computes.
Canon(m, e) ==
  IF \A i \in 1 .. Len(m) : m[i] = 0 THEN [m |-> <<>>, e |-> 0]
  ELSE LET z == CHOOSE k \in 1 .. Len(m) :
                  m[k] = 1 /\ \A j \in 1 .. (k - 1) : m[j] = 0
       IN  [m |-> SubSeq(m, z, Len(m)), e |-> e + z - 1]

\* variant: the bits beyond the 53rd are dropped
RoundTowardZero(m, e) ==
  IF Len(m) <= Precision THEN Canon(m, e)
  ELSE Canon(SubSeq(m, Len(m) - Precision + 1, Len(m)), e + Len(m) - Precision)

\* m * 2^e rounded to the nearest Number, ties to even
RoundToNumber(m, e) ==
  IF Len(m) <= Precision THEN Canon(m, e)
  ELSE LET s == Len(m) - Precision
           q == SubSeq(m, s + 1, Len(m))
           guard == m[s]
           sticky == \E i \in 1 .. (s - 1) : m[i] = 1
           up == guard = 1 /\ (sticky \/ q[1] = 1)
       IN  Canon(IF up THEN BitsAdd(q, <<1>>, 0) ELSE q, e + s)

NumberOf(n) == Canon(BitsOf(n), 0)

\* x * y
NumberMul(x, y) == RoundToNumber(BitsMul(x.m, y.m), x.e + y.e)

\* x + y
NumberAdd(x, y) ==
  LET e == IF x.e < y.e THEN x.e ELSE y.e
  IN  RoundToNumber(BitsAdd(BitsShift(x.m, x.e - e), BitsShift(y.m, y.e - e), 0), e)

\* x / Math.pow(2, k): exact, the exponent drops by k
NumberDivPow2(x, k) == IF x.m = <<>> THEN x ELSE [m |-> x.m, e |-> x.e - k]

\* the literal 0.60: 0x1.3333333333333p-1
Literal060 == Canon(BitsOfHex(<<1, 3, 3, 3, 3, 3, 3, 3, 3, 3, 3, 3, 3, 3>>), -53)

\* the literal 0.40: 0x1.999999999999ap-2
Literal040 == Canon(BitsOfHex(<<1, 9, 9, 9, 9, 9, 9, 9, 9, 9, 9, 9, 9, 10>>), -54)

(* ------------------------------ subsidy ------------------------------- *)

INITIAL_SUBSIDY == 5000
HALVING_INTERVAL == 2100000
\* `if (halvings >= 64)`
MaxHalvings == 64

\* variant: no cap on the number of halvings
getBlockSubsidyNoCap(height) ==
  NumberDivPow2(NumberOf(INITIAL_SUBSIDY), height \div HALVING_INTERVAL)

getBlockSubsidy(height) ==
  LET halvings == height \div HALVING_INTERVAL
  IN  IF halvings >= MaxHalvings THEN NumberOf(0)
      ELSE NumberDivPow2(NumberOf(INITIAL_SUBSIDY), halvings)

(* ------------------------------- state -------------------------------- *)

VARIABLES
  clock,   \* Date.now(), in milliseconds
  env,     \* process.env: RPC_USER and RPC_PASS ("" when unset)
  Cache,   \* cache.js: [data: key -> value, updated: timestamp]
  task,    \* the HTTP requests: each one's position in cachedFetch and its producer
  hist,    \* history of the writes, kept for the statements below
  storedAt, \* history: the time at which the value of each key was stored
  call     \* one call of a function of server.js: its arguments and its results

vars == <<clock, env, Cache, task, hist, storedAt, call>>

\* the keys of Cache.data
CacheKeys ==
  {"total_supply", "circulating_supply", "block_reward", "reward_breakdown",
   "mining_info", "height", "miner_reward", "foundation_reward"}

\* the keys request i asks for when the supply endpoints are served: the
\* first request goes to /total-supply or /circulating-supply, the others to
\* /total-supply
SupplyKeys(i) ==
  IF i = 1 THEN {"total_supply", "circulating_supply"} ELSE {"total_supply"}

\* the keys request i asks for when /mining-info is served: the first request
\* is the one to /mining-info, the others go to /total-supply
MiningKeys(i) == IF i = 1 THEN {"mining_info"} ELSE {"total_supply"}

EmptyData == [k \in CacheKeys |-> Null]

\* a producer's local variables; pos is the RPC call it is awaiting
NoP ==
  [pos |-> "none", blockHeight |-> Null,
   meowpowDifficulty |-> Null, scryptDifficulty |-> Null,
   meowpowHashrate |-> Null, scryptHashrate |-> Null,
   height |-> 0, hash |-> "", blocks |-> <<>>]

NoResult == [kind |-> "none"]
Value(v) == [kind |-> "value", value |-> v]
Thrown(e) == [kind |-> "error", error |-> e]

\* v is no value: null or undefined
Absent(v) == v \in {Null, Undefined}

\* nothing was stored yet; nothing was stored since the last clear
NoWrite == [key |-> "", stamp |-> 0, value |-> Undefined]
Cleared == [key |-> "", stamp |-> 0, value |-> Null]

\* what is recorded about one cachedFetch call, for the statements below
\*   held0    when it began, its key had held a present value since the last
\*            clear; no clear since
\*   mustHit  when it began, lastWrite was nonzero and less than TTL old and
\*            its key held a present value
\*   cross    when it began, its key held a present value stored more than
\*            TTL ago, and the last store was to another key, with a stamp
\*            less than TTL old
\*   blank    it began after a clear, before anything was stored again
\*   raced    another call for the same key was awaiting its producer while
\*            this one was
\*   invalid  its producer threw because the reply had no total_amount
\*   skip     the RPC call of the scan that answered last failed
\*   produced the value its producer returned
\*   failed   its producer threw
\*   thrown   the message of the error its producer threw while the key held
\*            no value
\*   others   when its producer threw, the key held no value and another key
\*            held one
\*   seen     Cache.data[key] right after its last statement
NoG ==
  [held0 |-> FALSE, mustHit |-> FALSE, cross |-> FALSE, blank |-> FALSE,
   raced |-> FALSE, invalid |-> FALSE, skip |-> FALSE,
   produced |-> Undefined, failed |-> FALSE, thrown |-> "", others |-> FALSE,
   seen |-> Undefined]

IdleTask ==
  [pc |-> "idle", key |-> "", now |-> 0, invoked |-> FALSE, path |-> "none",
   result |-> NoResult, p |-> NoP, g |-> NoG]

\*   held[k]      k has held a present value since the last clear
\*   last         the key, the stamp and the value of the last store
NoHist ==
  [held |-> [k \in CacheKeys |-> FALSE],
   last |-> NoWrite]

\* no function is called on its own
NoCall == [op |-> "none"]

\* no key was ever stored
NeverStored == [k \in CacheKeys |-> 0]

Init ==
  /\ clock = 1
  /\ env \in [RPC_USER : {"", "meow"}, RPC_PASS : {"", "secret"}]
  /\ Cache = [data |-> EmptyData, updated |-> 0]
  /\ task = [i \in Tasks |-> IdleTask]
  /\ hist = NoHist
  /\ storedAt = NeverStored
  /\ call = NoCall

(* ------------------------------ cache.js ------------------------------ *)

\* variant: the comparison the wrong way round
isCacheValidInverted(ttlMs) ==
  IF Cache.updated = 0 THEN FALSE
  ELSE (clock - Cache.updated) > ttlMs

\* variant: a value exactly ttlMs old still counts as valid
isCacheValidInclusive(ttlMs) ==
  IF Cache.updated = 0 THEN FALSE
  ELSE (clock - Cache.updated) <= ttlMs

isCacheValid(ttlMs) ==
  IF Cache.updated = 0 THEN FALSE
  ELSE (clock - Cache.updated) < ttlMs

\* variant: the timestamp is not reset
clearCacheKeepsStamp == [data |-> EmptyData, updated |-> Cache.updated]

clearCache == [data |-> EmptyData, updated |-> 0]

(* ------------------------------- rpc.js ------------------------------- *)

\* what the node (or the network) does with one HTTP request
NetFail == [net |-> "fail", ok |-> FALSE, status |-> "", data |-> Null]
HttpError == [net |-> "ok", ok |-> FALSE, status |-> "500: Internal Server Error", data |-> Null]
Envelope(result, error) ==
  [net |-> "ok", ok |-> TRUE, status |-> "200: OK",
   data |-> [result |-> result, error |-> error]]

\* a reply whose body is not JSON, and one whose body is the JSON value null
NotJson == [type |-> "not json"]
BadBody == [net |-> "ok", ok |-> TRUE, status |-> "200: OK", data |-> NotJson]
NullBody == [net |-> "ok", ok |-> TRUE, status |-> "200: OK", data |-> Null]

Str(s) == [type |-> "string", s |-> s]

\* cmd.trim().split(/\s+/), read from position i on; token is the part read
RECURSIVE Split(_, _, _)
Split(s, i, token) ==
  IF i > Len(s) THEN (IF token = "" THEN <<>> ELSE <<token>>)
  ELSE IF SubSeq(s, i, i) = " "
       THEN (IF token = "" THEN <<>> ELSE <<token>>) \o Split(s, i + 1, "")
  ELSE Split(s, i + 1, token \o SubSeq(s, i, i))

Digits == <<"0", "1", "2", "3", "4", "5", "6", "7", "8", "9">>

IsDigits(s) ==
  /\ s # ""
  /\ \A i \in 1 .. Len(s) : \E d \in 1 .. 10 : Digits[d] = SubSeq(s, i, i)

RECURSIVE Decimal(_)
Decimal(s) ==
  IF s = "" THEN 0
  ELSE 10 * Decimal(SubSeq(s, 1, Len(s) - 1))
       + (CHOOSE d \in 0 .. 9 : Digits[d + 1] = SubSeq(s, Len(s), Len(s)))

\* Number(p) of a parameter, or the parameter itself when that is NaN
Coerce(p) ==
  IF IsDigits(p) THEN Num(Decimal(p))
  ELSE IF Len(p) > 1 /\ SubSeq(p, 1, 1) = "-" /\ IsDigits(SubSeq(p, 2, Len(p)))
       THEN Num(0 - Decimal(SubSeq(p, 2, Len(p))))
  ELSE Str(p)

parseCommand(cmd) ==
  LET parts == Split(cmd, 1, "")
  IN  [method |-> parts[1],
       params |-> [k \in 1 .. Len(parts) - 1 |-> Coerce(parts[k + 1])]]

\* variant: a request is sent whatever the credentials are
RequestsAlways(cmd) ==
  <<[method |-> "POST", auth |-> env.RPC_USER \o ":" \o env.RPC_PASS,
     body |-> parseCommand(cmd)]>>

\* the HTTP requests one call of rpc(cmd) sends
Requests(cmd) ==
  IF env.RPC_USER = "" \/ env.RPC_PASS = "" THEN <<>>
  ELSE <<[method |-> "POST", auth |-> env.RPC_USER \o ":" \o env.RPC_PASS,
          body |-> parseCommand(cmd)]>>

Returned(v) == [ok |-> TRUE, value |-> v, error |-> ""]
Failed(msg) == [ok |-> FALSE, value |-> Undefined, error |-> msg]

\* JSON.stringify of an error object that has a code and nothing else
JSONStringify(error) == "{\"code\":" \o ToString(error.code.n) \o "}"

\* data.error.message || JSON.stringify(data.error)
ErrorText(error) ==
  IF "message" \in DOMAIN error /\ error.message # "" THEN error.message
  ELSE JSONStringify(error)

\* variant: the catch block throws the error again as it is
WrapBare(cmd, message) == message

\* the catch block: the command and the message of the error caught
Wrap(cmd, message) == "RPC command failed: " \o cmd \o " - " \o message

\* variant: the error field of the envelope is not looked at
rpcIgnoresError(cmd, resp) ==
  IF env.RPC_USER = "" \/ env.RPC_PASS = ""
  THEN Failed("RPC_USER and RPC_PASS must be set in environment variables")
  ELSE IF resp.net = "ok" /\ resp.ok /\ resp.data \notin {NotJson, Null}
       THEN Returned(Get(resp.data, "result"))
  ELSE Failed(Wrap(cmd, "fetch failed"))

\* rpc(cmd) when the node answers resp; an Error is held as its message
rpc(cmd, resp) ==
  IF env.RPC_USER = "" \/ env.RPC_PASS = ""
  THEN Failed("RPC_USER and RPC_PASS must be set in environment variables")
  ELSE LET inner ==
             IF resp.net = "fail" THEN Failed("fetch failed")
             ELSE IF ~resp.ok THEN Failed("HTTP " \o resp.status)
             ELSE IF resp.data = NotJson
                  THEN Failed("Unexpected token < in JSON at position 0")
             ELSE IF resp.data = Null
                  THEN Failed("Cannot read properties of null (reading 'error')")
             ELSE IF Truthy(Get(resp.data, "error"))
                  THEN Failed("RPC error: " \o ErrorText(Get(resp.data, "error")))
             ELSE Returned(Get(resp.data, "result"))
       IN  IF inner.ok THEN inner
           ELSE Failed(Wrap(cmd, inner.error))

(* ------------------------------ the node ------------------------------ *)

TxOutSetInfos ==
  {Null,
   [height |-> Num(7)],
   [height |-> Num(7), total_amount |-> Null],
   [height |-> Num(7), total_amount |-> Num(1)],
   [height |-> Num(7), total_amount |-> Num(2)]}

\* getblock <hash> 1: a MeowPow block, and a reply without a time
BlockReplies ==
  {[time |-> Num(60), version |-> Num(MPW + 66)],
   [version |-> Num(SCR + 1)]}

HashAt(height) == "hash" \o ToString(height)

\* the command string the producer hands to rpc at position p.pos
Cmd(p) ==
  CASE p.pos = "gettxoutsetinfo" -> "gettxoutsetinfo"
    [] p.pos = "getblockcount" -> "getblockcount"
    [] p.pos = "getdifficulty0" -> "getdifficulty 0"
    [] p.pos = "getdifficulty1" -> "getdifficulty 1"
    [] p.pos = "getnetworkhashps0" -> "getnetworkhashps 0 -1 0"
    [] p.pos = "getnetworkhashps1" -> "getnetworkhashps 0 -1 1"
    [] p.pos = "getblockhash" -> "getblockhash " \o ToString(p.height)
    [] p.pos = "getblock" -> "getblock " \o p.hash \o " 1"

\* the results the node may give to the command awaited at p.pos
Results(p) ==
  CASE p.pos = "gettxoutsetinfo" -> TxOutSetInfos
    [] p.pos = "getblockcount" -> {Num(h) : h \in 0 .. MaxBlockHeight}
    [] p.pos \in {"getdifficulty0", "getdifficulty1"} -> {Num(3)}
    [] p.pos \in {"getnetworkhashps0", "getnetworkhashps1"} -> {Num(9)}
    [] p.pos = "getblockhash" -> {HashAt(p.height)}
    [] p.pos = "getblock" -> BlockReplies

\* the node is down (the proxy answers 500), or it answers the command
Responses(p) == {HttpError} \cup {Envelope(r, Null) : r \in Results(p)}

(* ----------------------------- cachedFetch ---------------------------- *)

\* variant: the value is not stored, only the timestamp
CacheSetNoValue(key, value, now) ==
  [data |-> Cache.data, updated |-> now]

\* variant: the timestamp is not set
CacheSetNoStamp(key, value, now) ==
  [data |-> [Cache.data EXCEPT ![key] = value], updated |-> Cache.updated]

\* variant: a value is stored only under a key that holds none
CacheSetIfAbsent(key, value, now) ==
  [data |-> IF IsPresent(Cache.data[key]) THEN Cache.data
            ELSE [Cache.data EXCEPT ![key] = value],
   updated |-> now]

\* Cache.data[key] = value; Cache.updated = now
CacheSet(key, value, now) ==
  [data |-> [Cache.data EXCEPT ![key] = value], updated |-> now]

\* variant: the catch block throws the error again whatever is cached
FallbackThrows(key, err) == Thrown(err)

\* variant: the catch block throws an error of its own
FallbackGeneric(key, err) ==
  IF IsPresent(Cache.data[key]) THEN Value(Cache.data[key])
  ELSE Thrown("Service temporarily unavailable")

\* the catch block: the cached value if there is one, else the error again
Fallback(key, err) ==
  IF IsPresent(Cache.data[key]) THEN Value(Cache.data[key]) ELSE Thrown(err)

\* the first RPC call of the producer of each endpoint
FirstCall(key) ==
  IF key = "mining_info" THEN [NoP EXCEPT !.pos = "getblockcount"]
  ELSE [NoP EXCEPT !.pos = "gettxoutsetinfo"]

\* what is recorded when request i begins a call for key
StartG(i, key) ==
  LET fresh == Cache.updated # 0 /\ clock - Cache.updated < TTL
      present == ~Absent(Cache.data[key])
      racing == \E j \in Tasks \ {i} : task[j].pc = "await" /\ task[j].key = key
  IN  [NoG EXCEPT !.held0 = hist.held[key],
                  !.mustHit = fresh /\ present,
                  !.cross = /\ present
                            /\ hist.last.key \notin {"", key}
                            /\ clock - hist.last.stamp < TTL
                            /\ storedAt[key] # 0
                            /\ clock - storedAt[key] > TTL,
                  !.blank = hist.last = Cleared,
                  !.raced = racing]

\* a request arrives: cachedFetch runs up to its return (a hit) or up to the
\* first await of the producer
Start(i, key) ==
  /\ task[i].pc \in {"idle", "done"}
  /\ LET now == clock
         others == [j \in Tasks |->
                      IF task[j].pc = "await" /\ task[j].key = key
                      THEN [task[j] EXCEPT !.g.raced = TRUE] ELSE task[j]]
     IN
     IF isCacheValid(TTL) /\ IsPresent(Cache.data[key])
     THEN task' = [task EXCEPT ![i] =
            [pc |-> "done", key |-> key, now |-> 0, invoked |-> FALSE,
             path |-> "hit", result |-> Value(Cache.data[key]), p |-> NoP,
             g |-> [StartG(i, key) EXCEPT !.seen = Cache.data[key]]]]
     ELSE task' = [others EXCEPT ![i] =
            [pc |-> "await", key |-> key, now |-> now, invoked |-> TRUE,
             path |-> "none", result |-> NoResult, p |-> FirstCall(key),
             g |-> StartG(i, key)]]
  /\ UNCHANGED <<clock, env, Cache, hist, storedAt, call>>

\* `await fn()` returns value: store it and return it; skip tells what is
\* recorded about the last call of the producer
Finish(i, value, skip) ==
  /\ Cache' = CacheSet(task[i].key, value, task[i].now)
  /\ hist' = [held |-> [hist.held EXCEPT ![task[i].key] = @ \/ ~Absent(value)],
              last |-> [key |-> task[i].key, stamp |-> task[i].now, value |-> value]]
  /\ task' = [task EXCEPT ![i] =
       [@ EXCEPT !.pc = "done", !.now = 0, !.path = "fresh",
                 !.result = Value(value), !.p = NoP,
                 !.g.skip = skip,
                 !.g.produced = value,
                 !.g.seen = Cache'.data[task[i].key]]]

Resolve(i, value) == Finish(i, value, FALSE)

\* variant: the catch block sets the timestamp, so that the failure counts
\* as a refresh
RejectRemembers(i, err) ==
  /\ task' = [task EXCEPT ![i] =
       [@ EXCEPT !.pc = "done", !.now = 0,
                 !.path = IF Fallback(task[i].key, err).kind = "value" THEN "stale" ELSE "error",
                 !.result = Fallback(task[i].key, err),
                 !.p = NoP,
                 !.g.failed = TRUE]]
  /\ Cache' = [Cache EXCEPT !.updated = task[i].now]
  /\ UNCHANGED hist

\* variant: the catch block empties the key and sets the timestamp
RejectClears(i, err) ==
  /\ task' = [task EXCEPT ![i] =
       [@ EXCEPT !.pc = "done", !.now = 0, !.path = "error",
                 !.result = Thrown(err), !.p = NoP, !.g.failed = TRUE]]
  /\ Cache' = CacheSet(task[i].key, Null, task[i].now)
  /\ UNCHANGED hist

\* the catch block, entered with err; invalid tells what is recorded about
\* the cause
Catch(i, err, invalid) ==
  /\ task' = [task EXCEPT ![i] =
       [@ EXCEPT !.pc = "done", !.now = 0,
                 !.path = IF Fallback(task[i].key, err).kind = "value" THEN "stale" ELSE "error",
                 !.result = Fallback(task[i].key, err),
                 !.p = NoP,
                 !.g.failed = TRUE,
                 !.g.invalid = invalid,
                 !.g.thrown = IF Absent(Cache.data[task[i].key]) THEN err ELSE "",
                 !.g.others = /\ Absent(Cache.data[task[i].key])
                              /\ \E k \in CacheKeys \ {task[i].key} : ~Absent(Cache.data[k]),
                 !.g.seen = Cache.data[task[i].key]]]
  /\ UNCHANGED <<Cache, hist>>

\* `await fn()` throws err, an error of rpc
Reject(i, err) == Catch(i, err, FALSE)

\* variant: the reply is not examined, and the total_amount it does not have
\* is returned
InvalidReturns(i, err) ==
  /\ Cache' = CacheSet(task[i].key, Undefined, task[i].now)
  /\ hist' = [held |-> hist.held,
              last |-> [key |-> task[i].key, stamp |-> task[i].now, value |-> Undefined]]
  /\ task' = [task EXCEPT ![i] =
       [@ EXCEPT !.pc = "done", !.now = 0, !.path = "fresh",
                 !.result = Value(Undefined), !.p = NoP,
                 !.g.invalid = TRUE,
                 !.g.produced = Undefined,
                 !.g.seen = Undefined]]

\* the producer throws err because of what the reply holds
Invalid(i, err) == Catch(i, err, TRUE)

(* ------------------------------ producers ----------------------------- *)

\* /total-supply and /circulating-supply: gettxoutsetinfo answers
TxOutSetInfoReturn(i) ==
  /\ task[i].pc = "await"
  /\ task[i].p.pos = "gettxoutsetinfo"
  /\ \E resp \in Responses(task[i].p) :
       LET out == rpc(Cmd(task[i].p), resp)
           info == out.value
       IN  IF ~out.ok THEN Reject(i, out.error)
           ELSE IF ~Truthy(info) \/ Get(info, "total_amount") = Undefined
                THEN Invalid(i, "Invalid response from gettxoutsetinfo")
           ELSE Resolve(i, Get(info, "total_amount"))
  /\ UNCHANGED <<clock, env, call>>

\* the record the /mining-info producer returns
MiningInfo(p, nowMs) ==
  LET blockStats == calculateBlockStats(p.blocks, windowMinutes, nowMs)
  IN  [block_height |-> p.blockHeight,
       window_minutes |-> Num(windowMinutes),
       meowpow |-> [difficulty |-> p.meowpowDifficulty,
                    hashrate |-> p.meowpowHashrate,
                    blocks_found |-> blockStats.meowpow.blocks_found,
                    avg_block_time |-> blockStats.meowpow.avg_block_time],
       scrypt  |-> [difficulty |-> p.scryptDifficulty,
                    hashrate |-> p.scryptHashrate,
                    blocks_found |-> blockStats.scrypt.blocks_found,
                    avg_block_time |-> blockStats.scrypt.avg_block_time]]

\* variant: one height more is scanned
startHeightOneMore(blockHeight) ==
  IF blockHeight.n - blocksToFetch > 0 THEN blockHeight.n - blocksToFetch ELSE 0

\* Math.max(0, blockHeight - blocksToFetch + 1)
startHeight(blockHeight) ==
  IF blockHeight.n - blocksToFetch + 1 > 0 THEN blockHeight.n - blocksToFetch + 1 ELSE 0

\* variant: the loop stops one height early
ScanLoopShort(i, q, skip) ==
  IF q.height < q.blockHeight.n
  THEN /\ task' = [task EXCEPT ![i].p = [q EXCEPT !.pos = "getblockhash", !.hash = ""],
                               ![i].g.skip = skip]
       /\ UNCHANGED <<Cache, hist>>
  ELSE Finish(i, MiningInfo(q, clock), skip)

\* variant: the loop counts down
ScanLoopDown(i, q, skip) ==
  IF q.height <= q.blockHeight.n
  THEN /\ task' = [task EXCEPT ![i].p = [q EXCEPT !.pos = "getblockhash", !.hash = "",
                                                  !.height = @ - 2],
                               ![i].g.skip = skip]
       /\ UNCHANGED <<Cache, hist>>
  ELSE Finish(i, MiningInfo(q, clock), skip)

\* the loop test with the producer's variables q: the next getblockhash, or
\* the end of the scan and of the producer; skip tells whether the call that
\* just answered failed
ScanLoop(i, q, skip) ==
  IF q.height <= q.blockHeight.n
  THEN /\ task' = [task EXCEPT ![i].p = [q EXCEPT !.pos = "getblockhash", !.hash = ""],
                               ![i].g.skip = skip]
       /\ UNCHANGED <<Cache, hist>>
  ELSE Finish(i, MiningInfo(q, clock), skip)

\* variant: the catch block of the loop leaves the loop
SkipBreaks(i, p) == Finish(i, MiningInfo(p, clock), TRUE)

\* variant: the catch block goes on to the getblock of the height
SkipFetchesBlock(i, p) ==
  /\ task' = [task EXCEPT ![i].p = [p EXCEPT !.pos = "getblock"],
                          ![i].g.skip = TRUE]
  /\ UNCHANGED <<Cache, hist>>

\* variant: the catch block of the loop rethrows
SkipThrows(i, p) == Reject(i, "Failed to fetch block")

\* the catch block of the loop: the height is skipped
Skip(i, p) == ScanLoop(i, [p EXCEPT !.height = @ + 1], TRUE)

\* /mining-info: one of the five calls made before the scan is answered resp
PreScanAnswer(i, resp) ==
  /\ task[i].pc = "await"
  /\ task[i].p.pos \in {"getblockcount", "getdifficulty0", "getdifficulty1",
                        "getnetworkhashps0", "getnetworkhashps1"}
  /\ LET p == task[i].p
           out == rpc(Cmd(p), resp)
       IN  IF ~out.ok THEN Reject(i, out.error)
           ELSE CASE p.pos = "getblockcount" ->
                       /\ task' = [task EXCEPT ![i].p =
                            [p EXCEPT !.blockHeight = out.value, !.pos = "getdifficulty0"]]
                       /\ UNCHANGED <<Cache, hist>>
                  [] p.pos = "getdifficulty0" ->
                       /\ task' = [task EXCEPT ![i].p =
                            [p EXCEPT !.meowpowDifficulty = out.value, !.pos = "getdifficulty1"]]
                       /\ UNCHANGED <<Cache, hist>>
                  [] p.pos = "getdifficulty1" ->
                       /\ task' = [task EXCEPT ![i].p =
                            [p EXCEPT !.scryptDifficulty = out.value, !.pos = "getnetworkhashps0"]]
                       /\ UNCHANGED <<Cache, hist>>
                  [] p.pos = "getnetworkhashps0" ->
                       /\ task' = [task EXCEPT ![i].p =
                            [p EXCEPT !.meowpowHashrate = out.value, !.pos = "getnetworkhashps1"]]
                       /\ UNCHANGED <<Cache, hist>>
                  [] p.pos = "getnetworkhashps1" ->
                       ScanLoop(i, [p EXCEPT !.scryptHashrate = out.value,
                                             !.blocks = <<>>,
                                             !.height = startHeight(p.blockHeight)],
                                FALSE)
  /\ UNCHANGED <<clock, env, call>>

PreScanReturn(i) ==
  /\ task[i].p.pos \notin {"none", "gettxoutsetinfo", "getblockhash", "getblock"}
  /\ \E resp \in Responses(task[i].p) : PreScanAnswer(i, resp)

\* the scan: getblockhash <height> is answered resp; a failure skips the
\* height
GetBlockHashAnswer(i, resp) ==
  /\ task[i].pc = "await"
  /\ task[i].p.pos = "getblockhash"
  /\ LET p == task[i].p
           out == rpc(Cmd(p), resp)
       IN  IF ~out.ok THEN Skip(i, p)
           ELSE /\ task' = [task EXCEPT ![i].p = [p EXCEPT !.hash = out.value, !.pos = "getblock"],
                                        ![i].g.skip = FALSE]
                /\ UNCHANGED <<Cache, hist>>
  /\ UNCHANGED <<clock, env, call>>

GetBlockHashReturn(i) ==
  /\ task[i].p.pos = "getblockhash"
  /\ \E resp \in Responses(task[i].p) : GetBlockHashAnswer(i, resp)

\* the scan: getblock <hash> 1 is answered resp; a block with a time and a
\* version is kept; a failure skips the height
GetBlockAnswer(i, resp) ==
  /\ task[i].pc = "await"
  /\ task[i].p.pos = "getblock"
  /\ LET p == task[i].p
           out == rpc(Cmd(p), resp)
           block == out.value
           keep == /\ Truthy(block)
                   /\ Truthy(Get(block, "time"))
                   /\ Get(block, "version") # Undefined
           sample == [height |-> p.height, time |-> block.time.n, version |-> block.version.n]
       IN  IF ~out.ok THEN Skip(i, p)
           ELSE ScanLoop(i, [p EXCEPT !.height = @ + 1,
                                      !.blocks = IF keep THEN Append(@, sample) ELSE @],
                         FALSE)
  /\ UNCHANGED <<clock, env, call>>

GetBlockReturn(i) ==
  /\ task[i].p.pos = "getblock"
  /\ \E resp \in Responses(task[i].p) : GetBlockAnswer(i, resp)

(* ----------------------- the reward endpoints ------------------------ *)

\* the /block-reward producer once getblockchaininfo has answered chain
BlockReward(chain) ==
  IF ~Truthy(chain) \/ Get(chain, "blocks") = Undefined
  THEN Thrown("Invalid response from getblockchaininfo")
  ELSE LET height == chain.blocks.n
           subsidy == getBlockSubsidy(height)
           miner == NumberMul(subsidy, Literal060)
           foundation == NumberMul(subsidy, Literal040)
       IN  Value([height |-> chain.blocks, subsidy_total |-> subsidy,
                  miner |-> miner, foundation |-> foundation])

\* the /reward-breakdown producer once getblockchaininfo has answered chain
RewardBreakdown(chain) ==
  IF ~Truthy(chain) \/ Get(chain, "blocks") = Undefined
  THEN Thrown("Invalid response from getblockchaininfo")
  ELSE LET height == chain.blocks.n
           subsidy == getBlockSubsidy(height)
           miner == NumberMul(subsidy, Literal060)
           foundation == NumberMul(subsidy, Literal040)
       IN  Value([height |-> chain.blocks, subsidy_total |-> subsidy,
                  miner_percentage |-> Num(60), foundation_percentage |-> Num(40),
                  miner_reward |-> miner, foundation_reward |-> foundation])

\* what the /block-reward route answers once cachedFetch has ended with out
BlockRewardRoute(out) ==
  IF out.kind = "value"
  THEN [status |-> 200,
        body |-> [height |-> out.value.height,
                  block_reward |-> out.value.subsidy_total,
                  miner_reward |-> out.value.miner,
                  foundation_reward |-> out.value.foundation]]
  ELSE [status |-> 503,
        body |-> [error |-> "Service temporarily unavailable",
                  message |-> "Unable to fetch block reward"]]

\* the heights around the first MaxStage + 1 multiples of the halving interval
Heights ==
  {h \in {k * HALVING_INTERVAL + d : k \in 0 .. MaxStage, d \in {-1, 0, 1}} : h >= 0}

\* getblockchaininfo replies
ChainInfos ==
  {Null, [chain |-> "main"]} \cup {[chain |-> "main", blocks |-> Num(h)] : h \in Heights}

\* a chain is drawn; one of the functions below is then applied to it
InitReward ==
  /\ clock = 1
  /\ env = [RPC_USER |-> "meow", RPC_PASS |-> "secret"]
  /\ Cache = [data |-> EmptyData, updated |-> 0]
  /\ task = [i \in Tasks |-> IdleTask]
  /\ hist = NoHist
  /\ storedAt = NeverStored
  /\ call \in [op : {"start"}, chain : ChainInfos]

SubsidyCall ==
  /\ call.op = "start"
  /\ Truthy(call.chain) /\ Get(call.chain, "blocks") # Undefined
  /\ call' = [op |-> "subsidy", chain |-> call.chain,
              out |-> getBlockSubsidy(call.chain.blocks.n)]
  /\ UNCHANGED <<clock, env, Cache, task, hist, storedAt>>

BlockRewardCall ==
  /\ call.op = "start"
  /\ call' = [op |-> "block_reward", chain |-> call.chain,
              out |-> BlockReward(call.chain),
              res |-> BlockRewardRoute(BlockReward(call.chain))]
  /\ UNCHANGED <<clock, env, Cache, task, hist, storedAt>>

RewardBreakdownCall ==
  /\ call.op = "start"
  /\ call' = [op |-> "reward_breakdown", chain |-> call.chain,
              out |-> RewardBreakdown(call.chain)]
  /\ UNCHANGED <<clock, env, Cache, task, hist, storedAt>>

NextReward ==
  \/ SubsidyCall
  \/ BlockRewardCall
  \/ RewardBreakdownCall

SpecReward == InitReward /\ [][NextReward]_vars

(* --------------------------- classification -------------------------- *)

\* block versions, as signed 32-bit integers: every low byte under the two
\* prefixes, the same with the top bit set, the neighbours of the prefixes,
\* and the ends of the range
Versions ==
  {MPW + b : b \in 0 .. 255} \cup {SCR + b : b \in 0 .. 255}
  \cup {(MPW - 2147483647) - 1 + b : b \in {0, 66, 255}}
  \cup {(SCR - 2147483647) - 1 + b : b \in {0, 119, 255}}
  \cup {MPW - 1, SCR + 256, SCR + 511, MPW + 65536, 0, 1, 255, 256, -1, -256,
        305419896, 2147483647, -2147483647 - 1}

\* a version is drawn; detectAlgo is applied to it, then to the version with
\* its low byte filled
InitAlgo ==
  /\ clock = 1
  /\ env = [RPC_USER |-> "meow", RPC_PASS |-> "secret"]
  /\ Cache = [data |-> EmptyData, updated |-> 0]
  /\ task = [i \in Tasks |-> IdleTask]
  /\ hist = NoHist
  /\ storedAt = NeverStored
  /\ call \in [op : {"start"}, version : Versions]

\* version | 0xFF
OrLowByte(version) == version - (version % 256) + 255

DetectAlgoCall ==
  /\ call.op = "start"
  /\ call' = [op |-> "detectAlgo", version |-> call.version,
              out |-> detectAlgo(call.version)]
  /\ UNCHANGED <<clock, env, Cache, task, hist, storedAt>>

DetectAlgoFilledCall ==
  /\ call.op = "detectAlgo"
  /\ call' = [op |-> "detectAlgoFilled", version |-> call.version,
              out |-> call.out,
              outFilled |-> detectAlgo(OrLowByte(call.version))]
  /\ UNCHANGED <<clock, env, Cache, task, hist, storedAt>>

NextAlgo ==
  \/ DetectAlgoCall
  \/ DetectAlgoFilledCall

SpecAlgo == InitAlgo /\ [][NextAlgo]_vars

(* -------------------------- block statistics ------------------------- *)

\* the blocks the scan may have collected: a MeowPow, a Scrypt or an unknown
\* version, and a time in seconds (5000 is ahead of every clock below)
Samples ==
  [height : {0}, time : {0, 1000, 1100, 1300, 1301, 5000},
   version : {MPW + 66, SCR + 119, 305419896}]

BlockSeqs == UNION {[1 .. n -> Samples] : n \in 0 .. MaxBlocks}

\* Date.now() at the calls, in milliseconds
CallTimes == {1300000, 4600999, 4601000}

\* blocks and a time are drawn; calculateBlockStats is applied to the blocks
InitStats ==
  /\ clock \in CallTimes
  /\ env = [RPC_USER |-> "meow", RPC_PASS |-> "secret"]
  /\ Cache = [data |-> EmptyData, updated |-> 0]
  /\ task = [i \in Tasks |-> IdleTask]
  /\ hist = NoHist
  /\ storedAt = NeverStored
  /\ call \in [op : {"start"}, blocks : BlockSeqs]

\* calculateBlockStats(blocks, windowMinutes)
StatsCall ==
  /\ call.op = "start"
  /\ call' = [op |-> "stats", blocks |-> call.blocks, at |-> clock,
              out |-> calculateBlockStats(call.blocks, windowMinutes, clock)]
  /\ UNCHANGED <<clock, env, Cache, task, hist, storedAt>>

\* the permutations of 1 .. n
Perms(n) ==
  {p \in [1 .. n -> 1 .. n] : \A i, j \in 1 .. n : i # j => p[i] # p[j]}

\* calculateBlockStats applied to the blocks and, at the same time, to the
\* same blocks in another order
ReorderedCall ==
  /\ call.op = "start"
  /\ \E p \in Perms(Len(call.blocks)) :
       LET reordered == [i \in 1 .. Len(call.blocks) |-> call.blocks[p[i]]]
       IN  call' = [op |-> "reordered", blocks |-> call.blocks, at |-> clock,
                    reordered |-> reordered,
                    out |-> calculateBlockStats(call.blocks, windowMinutes, clock),
                    outReordered |-> calculateBlockStats(reordered, windowMinutes, clock)]
  /\ UNCHANGED <<clock, env, Cache, task, hist, storedAt>>

\* time passes after a call
Elapse ==
  /\ call.op = "stats"
  /\ \E t \in CallTimes : t > clock /\ clock' = t
  /\ UNCHANGED <<env, Cache, task, hist, storedAt, call>>

\* calculateBlockStats is called again with the same arguments
AgainCall ==
  /\ call.op = "stats"
  /\ call' = [op |-> "again", blocks |-> call.blocks, at |-> call.at,
              out |-> call.out, atAgain |-> clock,
              outAgain |-> calculateBlockStats(call.blocks, windowMinutes, clock)]
  /\ UNCHANGED <<clock, env, Cache, task, hist, storedAt>>

NextStats ==
  \/ StatsCall
  \/ ReorderedCall
  \/ Elapse
  \/ AgainCall

SpecStats == InitStats /\ [][NextStats]_vars

(* --------------------------- the RPC client -------------------------- *)

\* the command strings server.js hands to rpc
Commands ==
  {"gettxoutsetinfo", "getblockchaininfo", "getblockcount", "getdifficulty 0",
   "getnetworkhashps 0 -1 1", "getblockhash 575", "getblock hash575 1"}

\* the error member of an envelope: null, an error with a message, an error
\* without one, and a value that is neither null nor truthy
RpcErrors ==
  {Null, [code |-> Num(-8), message |-> "Block height out of range"],
   [code |-> Num(-32601)], Num(0)}

\* what may come back for one request
RpcResponses ==
  {NetFail, HttpError, BadBody, NullBody}
  \cup {Envelope(r, e) : r \in {Null, Num(0), Num(575), [height |-> Num(7)]},
                         e \in RpcErrors}
  \cup {[net |-> "ok", ok |-> TRUE, status |-> "200: OK", data |-> [result |-> Num(575)]]}

\* credentials, a command and the reply to its request (if one is sent) are
\* drawn; rpc is then called
InitRpc ==
  /\ clock = 1
  /\ env \in [RPC_USER : {"", "meow"}, RPC_PASS : {"", "secret"}]
  /\ Cache = [data |-> EmptyData, updated |-> 0]
  /\ task = [i \in Tasks |-> IdleTask]
  /\ hist = NoHist
  /\ storedAt = NeverStored
  /\ call \in [op : {"start"}, cmd : Commands, resp : RpcResponses]

RpcCall ==
  /\ call.op = "start"
  /\ call' = [op |-> "rpc", cmd |-> call.cmd, resp |-> call.resp,
              sent |-> Requests(call.cmd),
              out |-> rpc(call.cmd, call.resp)]
  /\ UNCHANGED <<clock, env, Cache, task, hist, storedAt>>

NextRpc == RpcCall

SpecRpc == InitRpc /\ [][NextRpc]_vars

(* ------------------------------ the rest ------------------------------ *)

\* clearCache()
Clear ==
  /\ Cache' = clearCache
  /\ hist' = [NoHist EXCEPT !.last = Cleared]
  /\ storedAt' = NeverStored
  /\ task' = [j \in Tasks |->
       IF task[j].pc = "await"
       THEN [task[j] EXCEPT !.g.held0 = FALSE] ELSE task[j]]
  /\ UNCHANGED <<clock, env, call>>

\* a millisecond passes
Tick ==
  /\ clock < MaxClock
  /\ clock' = clock + 1
  /\ UNCHANGED <<env, Cache, task, hist, storedAt, call>>

\* the store times are not recorded
Unrecorded == UNCHANGED storedAt

\* the store times are recorded: request i stores when it leaves by the
\* return of the try block
Recorded(i) ==
  storedAt' = IF task'[i].path = "fresh"
              THEN [storedAt EXCEPT ![task[i].key] = clock]
              ELSE storedAt

\* concurrent requests to /total-supply and /circulating-supply
Next ==
  \/ \E i \in Tasks : \E key \in SupplyKeys(i) : Start(i, key)
  \/ \E i \in Tasks : TxOutSetInfoReturn(i) /\ Unrecorded
  \/ Clear
  \/ Tick

Spec == Init /\ [][Next]_vars

\* the same, with the store times recorded
NextKeys ==
  \/ \E i \in Tasks : \E key \in SupplyKeys(i) : Start(i, key)
  \/ \E i \in Tasks : TxOutSetInfoReturn(i) /\ Recorded(i)
  \/ Clear
  \/ Tick

SpecKeys == Init /\ [][NextKeys]_vars

\* a request to /mining-info beside requests to /total-supply
NextMining ==
  \/ \E i \in Tasks : \E key \in MiningKeys(i) : Start(i, key)
  \/ \E i \in Tasks : TxOutSetInfoReturn(i) /\ Unrecorded
  \/ \E i \in Tasks : PreScanReturn(i) /\ Unrecorded
  \/ \E i \in Tasks : GetBlockHashReturn(i) /\ Unrecorded
  \/ \E i \in Tasks : GetBlockReturn(i) /\ Unrecorded
  \/ Clear
  \/ Tick

SpecMining == Init /\ [][NextMining]_vars

(* ------------------------------ the scan ----------------------------- *)

\* the block counts of the node: chains shorter than the scan, as long as
\* it, and longer
BlockCounts == {0, blocksToFetch - 1, blocksToFetch, MaxScanHeight}

\* the results the node may give during a scan of a long chain: it holds a
\* block with a time at the first and at the last height of the scan, and
\* blocks without a time elsewhere
ScanResults(p) ==
  CASE p.pos = "getblockcount" -> {Num(h) : h \in BlockCounts}
    [] p.pos = "getblock" ->
         IF p.height \in {startHeight(p.blockHeight), p.blockHeight.n}
         THEN BlockReplies
         ELSE {[version |-> Num(SCR + 1)]}
    [] OTHER -> Results(p)

\* the node fails at any call it likes
ScanResponses(p) == {HttpError} \cup {Envelope(r, Null) : r \in ScanResults(p)}

\* one request to /mining-info, with the credentials set
InitScan ==
  /\ clock = 1
  /\ env = [RPC_USER |-> "meow", RPC_PASS |-> "secret"]
  /\ Cache = [data |-> EmptyData, updated |-> 0]
  /\ task = [i \in Tasks |-> IdleTask]
  /\ hist = NoHist
  /\ storedAt = NeverStored
  /\ call = NoCall

ScanStart ==
  /\ task[1].pc = "idle"
  /\ Start(1, "mining_info")

ScanPreScan ==
  /\ task[1].p.pos \notin {"none", "gettxoutsetinfo", "getblockhash", "getblock"}
  /\ \E resp \in ScanResponses(task[1].p) : PreScanAnswer(1, resp)
  /\ Unrecorded

ScanGetBlockHash ==
  /\ task[1].p.pos = "getblockhash"
  /\ \E resp \in ScanResponses(task[1].p) : GetBlockHashAnswer(1, resp)
  /\ Unrecorded

ScanGetBlock ==
  /\ task[1].p.pos = "getblock"
  /\ \E resp \in ScanResponses(task[1].p) : GetBlockAnswer(1, resp)
  /\ Unrecorded

NextScan ==
  \/ ScanStart
  \/ ScanPreScan
  \/ ScanGetBlockHash
  \/ ScanGetBlock

\* every RPC call is answered or fails in the end
SpecScan ==
  /\ InitScan
  /\ [][NextScan]_vars
  /\ WF_vars(ScanPreScan)
  /\ WF_vars(ScanGetBlockHash)
  /\ WF_vars(ScanGetBlock)

(* ------------------------------ statements --------------------------- *)

Done(i) == task[i].pc = "done"

\* request i stores in this step: it leaves by the return of the try block
Stores(i) == task[i].pc = "await" /\ task'[i].pc = "done" /\ task'[i].path = "fresh"

\* request i begins a cachedFetch call in this step
Begins(i) == task[i].pc \in {"idle", "done"} /\ task'[i] # task[i]

TtlRange == 0 .. (MaxClock + 1)

\* C1 as stated: once a key has held a present value and clear() is not
\* called, every later fetch of the key returns a value, never an error, and
\* a failing producer yields the value cached under the key.
C1_OnceHeldAlwaysServed ==
  \A i \in Tasks :
    (Done(i) /\ task[i].g.held0) =>
      /\ task[i].result.kind = "value"
      /\ task[i].g.failed => task[i].result = Value(task[i].g.seen)

\* C1, amended: a fetch whose producer does not fail returns a value, and a
\* fetch whose producer fails while the key holds a present value returns
\* that value, not an error (the key loses its value on clear() and when a
\* producer succeeds with null or undefined).
C1_StaleFallback ==
  \A i \in Tasks :
    Done(i) =>
      /\ ~task[i].g.failed => task[i].result.kind = "value"
      /\ (task[i].g.failed /\ ~Absent(task[i].g.seen)) =>
           /\ task[i].path = "stale"
           /\ task[i].result = Value(task[i].g.seen)

C1_Witness ==
  \E i \in Tasks :
    /\ Done(i) /\ task[i].g.failed /\ task[i].g.held0
    /\ ~Absent(task[i].g.seen)
    /\ task[i].result = Value(task[i].g.seen)

\* C2: a fetch whose producer fails while the key holds no value ends with
\* the producer's own error, also when other keys hold values.
C2_ErrorPropagates ==
  \A i \in Tasks :
    (Done(i) /\ task[i].g.failed /\ Absent(task[i].g.seen)) =>
      /\ task[i].path = "error"
      /\ task[i].g.thrown # ""
      /\ task[i].result = Thrown(task[i].g.thrown)

C2_Witness ==
  \E i \in Tasks :
    /\ Done(i) /\ task[i].g.failed /\ task[i].g.others
    /\ task[i].result = Thrown(task[i].g.thrown)

\* C3: a fetch that begins while lastWrite is nonzero and less than TTL old
\* and its key holds a present value returns that value at once, and its
\* producer is not invoked: no RPC call is issued.
C3_CacheHit ==
  \A i \in Tasks :
    task[i].g.mustHit =>
      /\ Done(i) /\ task[i].path = "hit"
      /\ ~task[i].invoked /\ task[i].p = NoP
      /\ ~Absent(task[i].g.seen)
      /\ task[i].result = Value(task[i].g.seen)

C3_Witness ==
  \E i \in Tasks : task[i].g.mustHit /\ task[i].path = "hit" /\ ~task[i].invoked

\* C4: a fetch that missed and whose producer returned v returns v, and
\* right after its store the key holds v.
C4_StoreAndReturn ==
  \A i \in Tasks :
    (Done(i) /\ task[i].invoked /\ ~task[i].g.failed) =>
      /\ task[i].path = "fresh"
      /\ task[i].result = Value(task[i].g.produced)
      /\ task[i].g.seen = task[i].g.produced

C4_Witness ==
  \E i \in Tasks :
    /\ Done(i) /\ task[i].path = "fresh"
    /\ ~Absent(task[i].g.produced)
    /\ task[i].g.seen = task[i].g.produced

\* C5 as stated: the step in which a fetch stores its value sets lastWrite to
\* the time of that step, however long the producer ran.
C5_StampIsStoreTime ==
  [][\A i \in Tasks : Stores(i) => Cache'.updated = clock]_vars

\* C6: freshness is global. A fetch of K that begins while K holds a value
\* stored more than TTL ago, the last store was to another key and its stamp
\* is less than TTL old, is a hit: it returns K's old value and K's producer
\* is not invoked.
C6_GlobalFreshness ==
  \A i \in Tasks :
    task[i].g.cross =>
      /\ Done(i) /\ task[i].path = "hit"
      /\ ~task[i].invoked /\ task[i].p = NoP
      /\ task[i].result = Value(task[i].g.seen)

C6_Witness ==
  \E i \in Tasks : task[i].g.cross /\ task[i].path = "hit" /\ ~task[i].invoked

\* C7: no single-flight. Two fetches of one key that both await their
\* producers each have an RPC call of their own in flight; each of two
\* fetches that raced returns the value of its own producer and stores it;
\* and the cache holds the value of the store made last.
C7_NoSingleFlight ==
  /\ \A i, j \in Tasks :
       (i # j /\ task[i].pc = "await" /\ task[j].pc = "await"
          /\ task[i].key = task[j].key) =>
         /\ task[i].invoked /\ task[i].p.pos # "none"
         /\ task[j].invoked /\ task[j].p.pos # "none"
  /\ \A i \in Tasks :
       (Done(i) /\ task[i].g.raced /\ task[i].invoked /\ ~task[i].g.failed) =>
         /\ task[i].result = Value(task[i].g.produced)
         /\ task[i].g.seen = task[i].g.produced
  /\ hist.last.key # "" => Cache.data[hist.last.key] = hist.last.value

C7_Witness ==
  \E i, j \in Tasks :
    /\ i # j /\ Done(i) /\ Done(j) /\ task[i].key = task[j].key
    /\ task[i].g.raced /\ task[j].g.raced
    /\ task[i].path = "fresh" /\ task[j].path = "fresh"
    /\ ~Absent(task[i].g.produced) /\ ~Absent(task[j].g.produced)
    /\ task[i].g.produced # task[j].g.produced
    /\ task[i].g.seen = task[i].g.produced
    /\ hist.last.value = task[j].g.produced
    /\ Cache.data[task[j].key] = task[j].g.produced

\* C8: the cache changes only in the step in which a producer has completed
\* successfully (and in clear()): a hit, a stale fallback, a propagated error
\* and every step of a block-range scan still in progress leave Cache as it
\* is, and the step that stores a mining_info record is the one that handled
\* the last height of the range.
C8_OnlySuccessWrites ==
  [][/\ (Cache' # Cache) => (Clear \/ \E i \in Tasks : Stores(i))
     /\ \A i \in Tasks :
          (Stores(i) /\ task[i].key = "mining_info") =>
            /\ task[i].p.pos \in {"getblockhash", "getblock"}
            /\ task[i].p.height = task[i].p.blockHeight.n
            /\ Cache'.data["mining_info"].block_height = task[i].p.blockHeight]_vars

C8_Witness ==
  \E i \in Tasks :
    /\ task[i].pc = "await" /\ task[i].key = "mining_info"
    /\ task[i].p.pos = "getblock" /\ Len(task[i].p.blocks) >= 1
    /\ Absent(Cache.data["mining_info"])
    /\ \E j \in Tasks : Done(j) /\ task[j].path = "stale"

\* C9: isCacheValid(ttl) is true iff lastWrite is nonzero and now - lastWrite
\* is less than ttl: false on a cache never written or cleared, false when
\* exactly ttl has elapsed.
C9_IsFresh ==
  \A ttl \in TtlRange :
    isCacheValid(ttl) <=> (Cache.updated # 0 /\ clock - Cache.updated < ttl)

C9_Witness ==
  /\ Cache.updated # 0
  /\ clock - Cache.updated = TTL
  /\ ~isCacheValid(TTL)
  /\ isCacheValid(TTL + 1)

\* C10: clear() leaves every key absent and lastWrite zero, so that no ttl
\* makes the cache fresh; and a fetch that begins while nothing was stored
\* since the last clear invokes its producer.
C10_Clear ==
  [][/\ Clear =>
          /\ \A k \in CacheKeys : Absent(Cache'.data[k])
          /\ Cache'.updated = 0
          /\ \A ttl \in TtlRange : ~(isCacheValid(ttl))'
     /\ \A i \in Tasks :
          (hist.last = Cleared /\ Begins(i)) =>
            task'[i].pc = "await" /\ task'[i].invoked]_vars

\* a value was stored, the cache was cleared, and a fetch of the same key
\* that began after the clear awaits its producer
C10_Witness ==
  /\ hist.last = Cleared /\ Cache.updated = 0
  /\ \A k \in CacheKeys : Absent(Cache.data[k])
  /\ \E i, j \in Tasks :
       /\ Done(i) /\ task[i].path = "fresh" /\ ~Absent(task[i].g.produced)
       /\ task[j].pc = "await" /\ task[j].invoked /\ task[j].g.blank
       /\ task[j].key = task[i].key

\* n * x as a real number: no rounding
Times(n, x) == Canon(BitsMul(BitsOf(n), x.m), x.e)

\* C11: for every height h >= 0, with k = floor(h / 2100000), the subsidy is
\* 5000 / 2^k (the subsidy times 2^k is 5000) when k < 64 and 0 otherwise;
\* it is 5000 at height 0 and 2500 at height 2100000.
C11_Subsidy ==
  call.op = "subsidy" =>
    LET h == call.chain.blocks.n
        k == h \div 2100000
    IN  /\ k < 64 => [m |-> call.out.m, e |-> call.out.e + k] = NumberOf(5000)
        /\ k >= 64 => call.out = NumberOf(0)
        /\ h = 0 => call.out = NumberOf(5000)
        /\ h = 2100000 => call.out = NumberOf(2500)

\* the subsidy of the last height before the cap: 5000 / 2^63
C11_Witness ==
  /\ call.op = "subsidy"
  /\ call.chain.blocks.n = 64 * 2100000 - 1
  /\ call.out # NumberOf(0)
  /\ [m |-> call.out.m, e |-> call.out.e + 63] = NumberOf(5000)

\* the total, the miner's share and the foundation's share of a record
Shares(r) ==
  IF call.op = "block_reward"
  THEN [total |-> r.subsidy_total, miner |-> r.miner, foundation |-> r.foundation]
  ELSE [total |-> r.subsidy_total, miner |-> r.miner_reward,
        foundation |-> r.foundation_reward]

\* C12: in the block_reward and the reward_breakdown record of every height,
\* the miner's share is 60% of the total and the foundation's share 40% of
\* it, as real numbers (5 * miner = 3 * total, 5 * foundation = 2 * total),
\* and the sum of the two shares, as the program would add them, is the total.
C12_Split ==
  (call.op \in {"block_reward", "reward_breakdown"} /\ call.out.kind = "value") =>
    LET r == Shares(call.out.value)
    IN  /\ Times(5, r.miner) = Times(3, r.total)
        /\ Times(5, r.foundation) = Times(2, r.total)
        /\ NumberAdd(r.miner, r.foundation) = r.total

\* a reward_breakdown record of the second stage: 2500 = 1500 + 1000
C12_Witness ==
  /\ call.op = "reward_breakdown" /\ call.out.kind = "value"
  /\ call.out.value.subsidy_total = NumberOf(2500)
  /\ call.out.value.miner_reward = NumberOf(1500)
  /\ call.out.value.foundation_reward = NumberOf(1000)

\* C13: for every 32-bit version v, detectAlgo(v) is "meowpow" iff v with its
\* low byte cleared is 0x30090000 (v is in 0x30090000 .. 0x300900FF), "scrypt"
\* iff it is 0x30090100 (v is in 0x30090100 .. 0x300901FF), and "unknown" in
\* every other case, a version with the top bit set included.
C13_Classify ==
  call.op = "detectAlgo" =>
    LET v == call.version
    IN  /\ call.out \in {"meowpow", "scrypt", "unknown"}
        /\ call.out = "meowpow" <=> (805896192 <= v /\ v <= 805896192 + 255)
        /\ call.out = "scrypt" <=> (805896448 <= v /\ v <= 805896448 + 255)
        /\ v < 0 => call.out = "unknown"

\* 0xB0090042, the MeowPow version 0x30090042 with the top bit set
C13_Witness ==
  /\ call.op = "detectAlgo"
  /\ call.version = (805896192 - 2147483647) - 1 + 66
  /\ call.out = "unknown"

\* C14: the low byte is irrelevant: detectAlgo(v) = detectAlgo(v | 0xFF).
C14_LowByte ==
  call.op = "detectAlgoFilled" => call.out = call.outFilled

\* 0x30090100 and 0x300901FF are both Scrypt
C14_Witness ==
  /\ call.op = "detectAlgoFilled"
  /\ call.version = 805896448
  /\ call.out = "scrypt" /\ call.outFilled = "scrypt"

Algos == {"meowpow", "scrypt"}

\* the number of blocks of the call that satisfy P
CountBlocks(P(_)) == Cardinality({i \in 1 .. Len(call.blocks) : P(call.blocks[i])})

\* the age of block b at the call is at most 60 minutes
InWindow(b) == (call.at \div 1000) - b.time <= 60 * 60

\* the times, in the order of the input, of the blocks of algo that have a
\* nonzero time and are in the window
KeptTimes(algo) ==
  LET kept == SelectSeq(call.blocks,
                LAMBDA b : b.time # 0 /\ InWindow(b) /\ detectAlgo(b.version) = algo)
  IN  [i \in 1 .. Len(kept) |-> kept[i].time]

\* ts in ascending order
Ascending(ts) ==
  LET p == CHOOSE q \in Perms(Len(ts)) :
             \A i \in 1 .. (Len(ts) - 1) : ts[q[i]] <= ts[q[i + 1]]
  IN  [i \in 1 .. Len(ts) |-> ts[p[i]]]

\* the spacings of consecutive times of ts that are in (0, 3600]
Retained(ts) ==
  SelectSeq([i \in 1 .. (Len(ts) - 1) |-> ts[i + 1] - ts[i]],
            LAMBDA d : 0 < d /\ d <= 3600)

\* C15: calculateBlockStats gives the same result for the blocks in any
\* order, at the same time and with the same window.
C15_ReorderInvariant ==
  call.op = "reordered" => call.out = call.outReordered

\* three MeowPow blocks, two of them with the same time, in two orders
C15_Witness ==
  /\ call.op = "reordered"
  /\ call.reordered # call.blocks
  /\ \E i, j \in 1 .. Len(call.blocks) :
       i # j /\ call.blocks[i].time = call.blocks[j].time
  /\ call.out.meowpow.blocks_found = Num(3)
  /\ call.out.meowpow.avg_block_time # Null
  /\ call.out = call.outReordered

C17_AvgAbsent ==
  call.op = "stats" =>
    \A algo \in Algos :
      LET ts == Ascending(KeptTimes(algo))
      IN  /\ call.out[algo].blocks_found = Num(Len(ts))
          /\ (Len(ts) < 2 \/ Len(Retained(ts)) = 0) =>
               /\ call.out[algo].avg_block_time = Null
               /\ call.out[algo].avg_block_time # Num(0)

\* two MeowPow blocks with the same time: blocks_found 2, no average; and one
\* Scrypt block: blocks_found 1, no average
C17_Witness ==
  /\ call.op = "stats"
  /\ call.out.meowpow = [blocks_found |-> Num(2), avg_block_time |-> Null]
  /\ call.out.scrypt = [blocks_found |-> Num(1), avg_block_time |-> Null]

\* C18: the average is that of the spacings in (0, 3600] alone (it is within
\* one half of their mean, and there is none when no spacing is retained),
\* and every block kept counts in blocks_found, those next to an excluded
\* spacing too.
C18_SpacingFilter ==
  call.op = "stats" =>
    \A algo \in Algos :
      LET ts == Ascending(KeptTimes(algo))
          sp == Retained(ts)
          avg == call.out[algo].avg_block_time
      IN  /\ call.out[algo].blocks_found = Num(Len(ts))
          /\ Len(sp) = 0 => avg = Null
          /\ Len(sp) > 0 =>
               /\ avg # Null
               /\ 2 * Len(sp) * avg.n - 2 * SumSeq(sp) <= Len(sp)
               /\ 2 * SumSeq(sp) - 2 * Len(sp) * avg.n <= Len(sp)

\* blocks at 1000, 1100 and 5000: the spacing of 3900 is excluded, the
\* average is 100 and the three blocks count
C18_Witness ==
  /\ call.op = "stats"
  /\ Ascending(KeptTimes("meowpow")) = <<1000, 1100, 5000>>
  /\ call.out.meowpow = [blocks_found |-> Num(3), avg_block_time |-> Num(100)]

\* C19: when a spacing is retained, avg_block_time is the mean of the
\* retained spacings rounded to the nearest integer, a half rounded up, and
\* lies in 1 .. 3600; MeowPow blocks at 1000, 1100 and 1300 with now = 1300
\* give blocks_found 3 and an average of 150.
C19_RoundedMean ==
  call.op = "stats" =>
    /\ \A algo \in Algos :
         LET sp == Retained(Ascending(KeptTimes(algo)))
             avg == call.out[algo].avg_block_time
         IN  Len(sp) > 0 =>
               /\ avg # Null
               /\ avg.n \in 1 .. 3600
               /\ 2 * Len(sp) * avg.n <= 2 * SumSeq(sp) + Len(sp)
               /\ 2 * SumSeq(sp) + Len(sp) < 2 * Len(sp) * (avg.n + 1)
    /\ (/\ call.at \div 1000 = 1300
        /\ Len(call.blocks) = 3
        /\ \A i \in 1 .. 3 : detectAlgo(call.blocks[i].version) = "meowpow"
        /\ <<call.blocks[1].time, call.blocks[2].time, call.blocks[3].time>>
             = <<1000, 1100, 1300>>) =>
         call.out.meowpow = [blocks_found |-> Num(3), avg_block_time |-> Num(150)]

\* the blocks of the example
C19_Witness ==
  /\ call.op = "stats"
  /\ call.at \div 1000 = 1300
  /\ Len(call.blocks) = 3
  /\ \A i \in 1 .. 3 : detectAlgo(call.blocks[i].version) = "meowpow"
  /\ <<call.blocks[1].time, call.blocks[2].time, call.blocks[3].time>>
       = <<1000, 1100, 1300>>
  /\ call.out.meowpow = [blocks_found |-> Num(3), avg_block_time |-> Num(150)]

\* C20 as stated: two calls of calculateBlockStats with equal arguments
\* return equal results, whatever the times at which they are made.
C20_Deterministic ==
  call.op = "again" => call.out = call.outAgain

\* text t occurs in text s
Contains(s, t) ==
  \E k \in 1 .. Len(s) - Len(t) + 1 : SubSeq(s, k, k + Len(t) - 1) = t

CredentialsSet == env.RPC_USER # "" /\ env.RPC_PASS # ""

\* C23: when the RPC user or the RPC password is unset, rpc(command) fails
\* for every command, and no HTTP request is sent.
C23_NoCredentials ==
  (call.op = "rpc" /\ ~CredentialsSet) => (~call.out.ok /\ call.sent = <<>>)

C23_Witness ==
  /\ call.op = "rpc"
  /\ env.RPC_USER = "" /\ env.RPC_PASS = "secret"
  /\ call.resp = Envelope(Num(575), Null)
  /\ ~call.out.ok
  /\ call.sent = <<>>

\* C24 as stated: every error rpc throws, of every kind, the error for
\* missing credentials included, has the command string in its message.
C24_CommandInEveryError ==
  (call.op = "rpc" /\ ~call.out.ok) => Contains(call.out.error, call.cmd)

\* C24: every error rpc throws once a request was attempted (the transport
\* failed, the HTTP status was no success, the body could not be read, the
\* envelope carried an error) has the command string in its message; the
\* error for missing credentials has a fixed message without the command.
C24_CommandInError ==
  (call.op = "rpc" /\ ~call.out.ok) =>
     IF CredentialsSet
     THEN /\ Contains(call.out.error, call.cmd)
          /\ Contains(call.out.error, "RPC command failed: " \o call.cmd \o " - ")
     ELSE /\ ~Contains(call.out.error, call.cmd)
          /\ call.out.error = "RPC_USER and RPC_PASS must be set in environment variables"

C24_Witness ==
  /\ call.op = "rpc"
  /\ CredentialsSet
  /\ call.cmd = "getblockhash 575"
  /\ call.resp = Envelope(Null, [code |-> Num(-8), message |-> "Block height out of range"])
  /\ call.out = Failed("RPC command failed: getblockhash 575 - RPC error: Block height out of range")

\* C25 as stated: with the credentials set, the call fails when the HTTP
\* status is no success, when the transport fails (or the body holds no
\* envelope), or when the envelope has an error member that is not null; in
\* every other case it returns the result member unchanged; one request is
\* sent.
C25_NonNullError ==
  (call.op = "rpc" /\ CredentialsSet) =>
     LET resp == call.resp
         fails == \/ resp.net = "fail"
                  \/ ~resp.ok
                  \/ resp.data \in {NotJson, Null}
                  \/ Get(resp.data, "error") \notin {Null, Undefined}
     IN  /\ call.out.ok <=> ~fails
         /\ call.out.ok => call.out.value = Get(resp.data, "result")
         /\ Len(call.sent) = 1

\* C25: with the credentials set, the call fails when the HTTP status is no
\* success, when the transport fails, when the body is not JSON or is the
\* JSON value null, or when the envelope has an error member that is truthy
\* (an error member of null or 0, or none, is no failure); in every other
\* case it returns the result member unchanged; one request is sent per call.
C25_Outcome ==
  (call.op = "rpc" /\ CredentialsSet) =>
     LET resp == call.resp
         fails == \/ resp.net = "fail"
                  \/ ~resp.ok
                  \/ resp.data \in {NotJson, Null}
                  \/ Get(resp.data, "error") \notin {Null, Undefined, Num(0)}
     IN  /\ call.out.ok <=> ~fails
         /\ call.out.ok => call.out.value = Get(resp.data, "result")
         /\ Len(call.sent) = 1

C25_Witness ==
  /\ call.op = "rpc"
  /\ CredentialsSet
  /\ call.resp = Envelope(Num(575), Num(0))
  /\ call.out = Returned(Num(575))
  /\ Len(call.sent) = 1
  /\ call.sent[1].body = [method |-> "getblockhash", params |-> <<Num(575)>>]

\* C27: the success response of GET /block-reward carries the fields height,
\* subsidy_total, miner_reward, foundation_reward, miner_percentage and
\* foundation_percentage.
C27_ReadmeFields ==
  (call.op = "block_reward" /\ call.res.status = 200) =>
     {"height", "subsidy_total", "miner_reward", "foundation_reward",
      "miner_percentage", "foundation_percentage"} \subseteq DOMAIN call.res.body

\* C28: between two clear() calls lastWrite never decreases, under any
\* interleaving: a store never sets Cache.updated to less than it was.
C28_LastWriteMonotone ==
  [][\A i \in Tasks : Stores(i) => Cache'.updated >= Cache.updated]_vars

\* request j's last cachedFetch call, for key, ended in the catch block
FellBack(j, key) ==
  task[j].pc = "done" /\ task[j].key = key /\ task[j].path \in {"stale", "error"}

\* C29: a failed producer is not remembered. A fetch of a key that begins
\* after a fetch of that key ended in the catch block (with the stale value
\* or with the error) invokes the producer, unless the cache is fresh and
\* holds the key; the cache was not so when the failed fetch began, and it
\* is fresh only by a store: its timestamp is the stamp of the last store.
C29_NoNegativeCaching ==
  [][\A i, j \in Tasks : \A key \in CacheKeys :
       (Begins(i) /\ task'[i].key = key /\ FellBack(j, key)) =>
          /\ ~task[j].g.mustHit
          /\ task'[i].invoked <=> ~(isCacheValid(TTL) /\ IsPresent(Cache.data[key]))
          /\ ~task'[i].invoked =>
               /\ hist.last.key # ""
               /\ Cache.updated = hist.last.stamp
               /\ clock - hist.last.stamp < TTL]_vars

\* a fetch of total_supply fell back to the stale value; the next one, begun
\* after it ended and with no store in between, is awaiting its producer
C29_Witness ==
  /\ FellBack(2, "total_supply")
  /\ task[2].path = "stale"
  /\ ~task[2].g.raced
  /\ task[1].pc = "await" /\ task[1].key = "total_supply"
  /\ task[1].invoked
  /\ ~task[1].g.raced
  /\ IsPresent(Cache.data["total_supply"])

\* request i's producer throws in this step because the gettxoutsetinfo
\* reply had no total_amount
Lacks(i) == task[i].pc = "await" /\ task'[i].pc = "done" /\ task'[i].g.invalid

\* C26: a gettxoutsetinfo reply without total_amount makes the supply
\* producer fail, for total_supply and for circulating_supply: the cache is
\* left as it was, and the call ends with the value cached under the key if
\* there is one, else with the producer's error.
C26_MissingTotalAmount ==
  [][\A i \in Tasks :
       Lacks(i) =>
          /\ Cache' = Cache
          /\ task'[i].g.failed
          /\ task'[i].path \in {"stale", "error"}
          /\ task'[i].result =
               IF IsPresent(Cache.data[task[i].key])
               THEN Value(Cache.data[task[i].key])
               ELSE Thrown("Invalid response from gettxoutsetinfo")]_vars

\* circulating_supply holds 1; a later fetch of it got a reply without
\* total_amount and ended with the 1
C26_Witness ==
  /\ task[1].pc = "done" /\ task[1].key = "circulating_supply"
  /\ task[1].g.invalid
  /\ task[1].path = "stale"
  /\ task[1].result = Value(Num(1))
  /\ Cache.data["circulating_supply"] = Num(1)

\* request i's producer is in the scan, and one of its RPC calls is answered
\* in this step
ScanStep(i) ==
  /\ task[i].pc = "await"
  /\ task[i].p.pos \in {"getblockhash", "getblock"}
  /\ task'[i].p # task[i].p

\* the blocks found that the statistics report
Found(info) ==
  info.meowpow.blocks_found.n + info.scrypt.blocks_found.n

\* C21: in the scan, a failure of getblockhash or of getblock at a height is
\* caught and the height is skipped: no sample is added, the scan goes on
\* with the next height, and after the last height the producer returns its
\* statistics, computed from the samples of the heights that were fetched,
\* which are stored.
C21_SkipFailedHeight ==
  [][\A i \in Tasks :
       (ScanStep(i) /\ task'[i].g.skip) =>
          LET p == task[i].p
          IN  IF p.height < p.blockHeight.n
              THEN /\ task'[i].pc = "await"
                   /\ task'[i].p.pos = "getblockhash"
                   /\ task'[i].p.height = p.height + 1
                   /\ task'[i].p.blocks = p.blocks
              ELSE /\ task'[i].pc = "done"
                   /\ task'[i].path = "fresh"
                   /\ task'[i].result.kind = "value"
                   /\ task'[i].result.value.block_height = p.blockHeight
                   /\ Found(task'[i].result.value) = Len(p.blocks)
                   /\ \A k \in 1 .. Len(p.blocks) : p.blocks[k].height < p.height
                   /\ Cache'.data["mining_info"] = task'[i].result.value]_vars

\* the getblock of height 0 gave a sample, the fetch of height 1 failed, and
\* /mining-info answered with one block found
C21_Witness ==
  /\ task[1].pc = "done" /\ task[1].key = "mining_info"
  /\ task[1].g.skip
  /\ task[1].path = "fresh"
  /\ task[1].result.value.block_height = Num(1)
  /\ Found(task[1].result.value) = 1

\* the commands request i's producer has sent and is awaiting the answer of
InFlight(i) ==
  IF task[i].pc = "await" /\ task[i].p.pos # "none" THEN {Cmd(task[i].p)} ELSE {}

\* the place of each call in the producer
Rank(pos) ==
  CASE pos = "getblockcount" -> 1
    [] pos = "getdifficulty0" -> 2
    [] pos = "getdifficulty1" -> 3
    [] pos = "getnetworkhashps0" -> 4
    [] pos = "getnetworkhashps1" -> 5
    [] pos = "getblockhash" -> 6
    [] pos = "getblock" -> 7
    [] OTHER -> 0

\* request i's /mining-info producer is answered a call in this step and
\* sends the next one
NextCall(i) ==
  /\ task[i].pc = "await" /\ task[i].key = "mining_info"
  /\ task'[i].pc = "await"
  /\ task'[i].p # task[i].p

\* C22: within one invocation of the /mining-info producer the RPC calls do
\* not overlap: one call at most is awaited at any time, each call is sent in
\* the step in which the call before it is answered, in the order of the
\* code; the heights are requested in ascending order, and the getblockhash
\* of a height is sent only when the last call of the height before it
\* (its getblockhash if that failed, else its getblock) has been answered.
C22_Sequential ==
  [][\A i \in Tasks :
       /\ Cardinality(InFlight(i)) <= 1
       /\ NextCall(i) =>
            LET p == task[i].p
                q == task'[i].p
            IN  /\ Cardinality(InFlight(i)) = 1
                /\ Rank(p.pos) < 6 => Rank(q.pos) = Rank(p.pos) + 1
                /\ p.pos = "getblockhash" =>
                     \/ q.pos = "getblock" /\ q.height = p.height
                     \/ q.pos = "getblockhash" /\ q.height = p.height + 1
                /\ p.pos = "getblock" =>
                     q.pos = "getblockhash" /\ q.height = p.height + 1
                /\ Rank(p.pos) >= 6 => q.height >= p.height]_vars

\* the getblockhash of height 1 is awaited after the getblock of height 0
\* gave a sample
C22_Witness ==
  /\ task[1].pc = "await" /\ task[1].key = "mining_info"
  /\ task[1].p.pos = "getblockhash"
  /\ task[1].p.height = 1
  /\ Len(task[1].p.blocks) = 1
  /\ task[1].p.blocks[1].height = 0
  /\ InFlight(1) = {"getblockhash 1"}

\* max(0, H - 575)
FirstHeight(H) == IF H > 575 THEN H - 575 ELSE 0

\* request i's producer is in the scan
InScan(i) == task[i].pc = "await" /\ task[i].p.pos \in {"getblockhash", "getblock"}

\* C30: for the block count H that getblockcount returned, the scan visits
\* the heights max(0, H - 575) .. H, each once and in this order: it begins
\* at the first, goes from a height to the next one only, and ends after H
\* and not before; the getblockhash calls sent are 576 at most; the samples
\* are of visited heights, one at most for each; no height above H is
\* requested, whatever the node holds by then; and whichever calls fail, the
\* producer ends.
C30_ScanRange ==
  /\ [][\A i \in Tasks :
          LET p == task[i].p
              q == task'[i].p
              H == q.blockHeight.n
          IN  /\ (p.pos = "getnetworkhashps1" /\ NextCall(i)) =>
                    q.pos = "getblockhash" /\ q.height = FirstHeight(H) /\ q.blocks = <<>>
              /\ (InScan(i) /\ NextCall(i)) =>
                    q.height \in {p.height, p.height + 1}
              /\ (InScan(i) /\ task'[i].pc = "done") =>
                    p.height = p.blockHeight.n /\ task'[i].path = "fresh"]_vars
  /\ [](\A i \in Tasks :
          InScan(i) =>
             LET p == task[i].p
                 H == p.blockHeight.n
                 sent == p.height - FirstHeight(H) + 1
             IN  /\ FirstHeight(H) <= p.height /\ p.height <= H
                 /\ sent <= 576
                 /\ Len(p.blocks) < sent
                 /\ \A k \in 1 .. Len(p.blocks) :
                      /\ p.blocks[k].height >= FirstHeight(H)
                      /\ p.blocks[k].height < p.height
                      /\ k > 1 => p.blocks[k - 1].height < p.blocks[k].height)
  /\ \A i \in Tasks : (task[i].pc = "await") ~> (task[i].pc = "done")

\* the chain has 577 blocks above the first: the scan ended after height
\* 577 with the samples of the heights 2 and 577
C30_Witness ==
  /\ task[1].pc = "done" /\ task[1].path = "fresh"
  /\ task[1].result.value.block_height = Num(577)
  /\ Found(task[1].result.value) = 2

\* C31: within one height of the scan, getblock is sent only in the step in
\* which the getblockhash of that height returns, and with the hash it
\* returned; when getblockhash fails, no getblock is sent for the height: the
\* next call is the getblockhash of the next height (after the last height
\* there is no next call).
C31_HashBeforeBlock ==
  /\ [][\A i \in Tasks :
          LET p == task[i].p
              q == task'[i].p
          IN  /\ (task'[i].pc = "await" /\ q.pos = "getblock" /\ q # p) =>
                    /\ task[i].pc = "await" /\ p.pos = "getblockhash"
                    /\ ~task'[i].g.skip
                    /\ q.height = p.height
                    /\ q.hash \in Results(p)
                    /\ InFlight(i)' = {"getblock " \o q.hash \o " 1"}
              /\ (ScanStep(i) /\ p.pos = "getblockhash" /\ task'[i].g.skip) =>
                    IF p.height < p.blockHeight.n
                    THEN q.pos = "getblockhash" /\ q.height = p.height + 1
                    ELSE task'[i].pc = "done"]_vars
  /\ [](\A i \in Tasks :
          (task[i].pc = "await" /\ task[i].p.pos = "getblock") =>
             task[i].p.hash = HashAt(task[i].p.height))

\* the getblockhash of height 0 failed and that of height 1 returned: the
\* getblock of height 1 is awaited, and no sample was taken
C31_Witness ==
  /\ task[1].pc = "await" /\ task[1].p.pos = "getblock"
  /\ task[1].p.height = 1
  /\ task[1].p.hash = "hash1"
  /\ task[1].p.blocks = <<>>
  /\ ~task[1].g.skip
  /\ InFlight(1) = {"getblock hash1 1"}

\* the five calls made before the scan
PreScanCalls ==
  {"getblockcount", "getdifficulty 0", "getdifficulty 1",
   "getnetworkhashps 0 -1 0", "getnetworkhashps 0 -1 1"}

\* request i's /mining-info producer is awaiting a call made before the scan
\* and ends in this step
PreScanEnds(i) ==
  /\ task[i].pc = "await" /\ task[i].key = "mining_info"
  /\ InFlight(i) \subseteq PreScanCalls
  /\ task'[i].pc = "done"

\* C32: a failure of one of the five calls made before the scan fails the
\* whole /mining-info producer (the producer cannot end at such a call in
\* another way): no later call of the invocation is sent, the cache is left
\* as it was, and cachedFetch ends with the value cached under mining_info
\* if there is one, else with the error of the call, which names it.
C32_PreScanFailure ==
  [][\A i \in Tasks :
       PreScanEnds(i) =>
          /\ task'[i].g.failed
          /\ InFlight(i)' = {}
          /\ Cache' = Cache
          /\ IF IsPresent(Cache.data["mining_info"])
             THEN /\ task'[i].path = "stale"
                  /\ task'[i].result = Value(Cache.data["mining_info"])
             ELSE /\ task'[i].path = "error"
                  /\ task'[i].result.kind = "error"
                  /\ \/ ~CredentialsSet
                     \/ \E c \in InFlight(i) : Contains(task'[i].result.error, c)]_vars

\* mining_info holds a record, and a later /mining-info request, whose
\* producer failed at a call before the scan, ended with that record
C32_Witness ==
  /\ task[1].pc = "done" /\ task[1].key = "mining_info"
  /\ task[1].g.failed
  /\ task[1].path = "stale"
  /\ IsPresent(Cache.data["mining_info"])
  /\ task[1].result = Value(Cache.data["mining_info"])
  /\ Cache.data["mining_info"].block_height = Num(1)


\* request i's scan ends in this step, and the heights before the last one
\* gave no sample
ScanEndsEmpty(i) ==
  /\ ScanStep(i)
  /\ task'[i].pc = "done"
  /\ task[i].p.blocks = <<>>

\* the statistics of a window without blocks
NoBlocks(info) ==
  /\ info.meowpow.blocks_found = Num(0) /\ info.meowpow.avg_block_time = Null
  /\ info.scrypt.blocks_found = Num(0) /\ info.scrypt.avg_block_time = Null

\* C33: failures within the scan are not failures of the producer: when the
\* five calls before the scan succeeded and no height of the scan gave a
\* block, the last call having failed as well, the producer returns a record
\* with blocks_found 0 and avg_block_time null for both algorithms, and
\* cachedFetch stores that record under mining_info, whatever was cached
\* there, sets lastWrite to the time read at its start, and answers with the
\* record, not with the value cached before.
C33_DegradedOverwrites ==
  [][\A i \in Tasks :
       ScanEndsEmpty(i) =>
          /\ task'[i].path = "fresh"
          /\ task'[i].result.kind = "value"
          /\ task'[i].g.skip => NoBlocks(task'[i].result.value)
          /\ task'[i].result.value.block_height = task[i].p.blockHeight
          /\ Cache'.data["mining_info"] = task'[i].result.value
          /\ Cache'.updated = task[i].now]_vars

\* mining_info held a record when a /mining-info request began; the only
\* height of its scan failed, it was answered with a record without blocks,
\* and that record is the one cached now
C33_Witness ==
  /\ task[1].pc = "done" /\ task[1].key = "mining_info"
  /\ task[1].g.held0
  /\ task[1].path = "fresh" /\ task[1].g.skip
  /\ task[1].result.value.block_height = Num(0)
  /\ NoBlocks(task[1].result.value)
  /\ Cache.data["mining_info"] = task[1].result.value
  /\ hist.last.key = "mining_info" /\ hist.last.value = task[1].result.value
  /\ Cache.updated = hist.last.stamp /\ Cache.updated > 0

\* request i's producer returns null in this step
ReturnsNull(i) ==
  /\ task[i].pc = "await" /\ task'[i].pc = "done"
  /\ task'[i].path = "fresh"
  /\ task'[i].result = Value(Null)

\* request i enters cachedFetch in this step
Enters(i) == task[i].pc # "await" /\ task'[i] # task[i]

\* request i's producer throws in this step
Throws(i) ==
  /\ task[i].pc = "await" /\ task'[i].pc = "done"
  /\ task'[i].g.failed

\* C34: a key counts as present when its value is neither null nor
\* undefined. When a producer returns null, cachedFetch stores the null and
\* sets lastWrite to the time read at its start; a request that enters
\* cachedFetch for a key that holds null invokes the producer, however fresh
\* the cache is; and when the producer of a key that holds null throws,
\* cachedFetch throws the producer's error and leaves the cache as it was.
C34_NullIsAbsent ==
  [][\A i \in Tasks :
       /\ ReturnsNull(i) =>
            /\ Cache'.data[task[i].key] = Null
            /\ Cache'.updated = task[i].now
       /\ (Enters(i) /\ Cache.data[task'[i].key] = Null) =>
            /\ task'[i].pc = "await"
            /\ task'[i].invoked
            /\ task'[i].now = clock
       /\ (Throws(i) /\ Cache.data[task[i].key] = Null) =>
            /\ task'[i].path = "error"
            /\ task'[i].result.kind = "error"
            /\ task'[i].result.error = task'[i].g.thrown
            /\ task'[i].result.error # ""
            /\ Cache' = Cache]_vars

\* the last store put null under total_supply, and the cache is still fresh;
\* request 1, which entered cachedFetch for total_supply after that store,
\* invoked its producer all the same and ended with the producer's error
C34_Witness ==
  /\ hist.last.key = "total_supply" /\ hist.last.value = Null
  /\ Cache.data["total_supply"] = Null
  /\ Cache.updated = hist.last.stamp
  /\ isCacheValid(TTL)
  /\ task[1].pc = "done" /\ task[1].key = "total_supply"
  /\ ~task[1].g.raced
  /\ task[1].invoked /\ task[1].g.failed
  /\ task[1].path = "error"
  /\ task[1].result.kind = "error"

====
